---- MODULE Spec2Model ----
(***************************************************************************)
(* Model of trogers1052/alert-service: the Kafka claim processor           *)
(* (internal/kafka), the alert gate and orchestrator (internal/service)    *)
(* and the consumer start-up loop.                                         *)
(*                                                                         *)
(* Units.  Confidence is kept in hundredths (0.6 is 60).  The monotonic   *)
(* clock `now` counts ticks of 30 seconds, so time.Minute is 2 ticks.     *)
(***************************************************************************)
EXTENDS Integers, Sequences, FiniteSets, TLC

VARIABLES
    \* ---- internal/config: the loaded, immutable configuration
    config,
    \* ---- internal/service AlertService
    cooldowns,      \* symbol -> last alert time (map, absent keys outside DOMAIN)
    now,            \* monotonic clock read by time.Now() / time.Since()
    \* ---- internal/kafka consumerGroupHandler.ConsumeClaim, one loop per claim
    pc,             \* claim -> position in ConsumeClaim / the handler it called
    cur,            \* claim -> message taken from claim.Messages()
    evt,            \* claim -> type of the event value passed to the handler
    lastAlert,      \* claim -> local of checkCooldown: value read under RLock
    checks,         \* claim -> gate checks evaluated for cur, in order, with result
    hres,           \* claim -> what the handler returned for cur
    ninvoked,       \* claim -> handler invocations for cur
    nsink,          \* claim -> telegramClient.SendMessage calls for cur
    sres,           \* claim -> local err of the handler: what SendMessage returned
    received,       \* claim -> the loop has taken a message in this process run
    prev,           \* claim -> how the last iteration ended, while back at the select
    nmarks,         \* claim -> session.MarkMessage calls in the current/last iteration
    redeliver,      \* claim -> delivered but unmarked message, due again after restart
    ctxDone,        \* session.Context() has been cancelled
    alive,          \* the process is running (FALSE after a panic)
    accepted,       \* history: symbol -> time the gate last accepted a decision
    sentOK,         \* history: symbol -> time of the last successful decision send
                    \* (both of this process run, kept for the symbols in their domain)
    \* ---- internal/kafka Consumer.Start / consume goroutine
    ready,          \* Consumer.ready: the channel the field currently holds
    nchan,          \* channels made so far (channel ids are 0 .. nchan-1)
    closedCh,       \* channel id -> number of close() calls on it
    mpc,            \* position of the caller of Start
    waitCh,         \* channel the caller evaluated c.ready to (<-c.ready)
    gpc,            \* position of the goroutine started by Start
    hready,         \* handler.ready of the handler passed to the current Consume
    startCtx,       \* ctx of Start has been cancelled
    nconsume,       \* calls of client.Consume so far
    nsetup,         \* calls of consumerGroupHandler.Setup so far
    \* ---- unit harnesses
    qhour,          \* hour given to isQuietHours (None before the first call)
    qres,           \* its result
    cdprobe,        \* last call of checkCooldown: symbol, time, result
    \* ---- internal/kafka Consumer.Close
    cpc,            \* position of the caller of Close
    clientClosed,   \* c.client.Close() has been called
    \* ---- internal/service cooldownMu (sync.RWMutex)
    readers,        \* handlers holding the shared lock
    writers,        \* handlers holding cooldownMu exclusively (Lock)
    \* ---- internal/service formatDecisionMessage / formatRankingMessage
    rin,            \* the event given to the renderer
    rout            \* the texts rendered for it so far, oldest first

claimVars == <<pc, cur, evt, lastAlert, checks, hres, ninvoked, nsink, sres,
               received, prev, nmarks, redeliver>>
svcVars   == <<cooldowns, now, accepted, sentOK>>
lifeVars  == <<ready, nchan, closedCh, mpc, waitCh, gpc, hready, startCtx,
               nconsume, nsetup>>
closeVars  == <<cpc, clientClosed>>
lockVars   == <<readers, writers>>
renderVars == <<rin, rout>>
unitVars  == <<qhour, qres, cdprobe, closeVars, lockVars, renderVars>>
vars      == <<config, claimVars, svcVars, ctxDone, alive, lifeVars, unitVars>>

-----------------------------------------------------------------------------
(* Bounds of the model *)

MaxTime == 2        \* the clock stops advancing here
MaxSessions == 3    \* calls of client.Consume
MaxRenders == 2     \* renderings of one event
MaxRankings == 4     \* entries of a RankingEvent
MaxRebalances == 1   \* sessions ended by a rebalance or a failed Consume

(* Program constants *)

Minute == 2               \* time.Minute in ticks
DefaultMinConfidence == 60
HoursPerDay == 24         \* time.Time.Hour() is in 0..23
BarSegments == 10         \* formatConfidenceBar: empty := 10 - filled
DefaultRankingsTopN == 5  \* config.Load RANKINGS_TOP_N
ReasoningLimit == 100     \* formatRankingMessage: len(reasoning) > 100
ReasoningKeep == 97       \* formatRankingMessage: reasoning[:97]

-----------------------------------------------------------------------------
(* internal/models *)

SignalBuy   == "BUY"
SignalSell  == "SELL"
SignalWatch == "WATCH"

(* internal/config *)

DecisionTopic == "trading.decisions"
RankingTopic  == "trading.rankings"

Hours == 0 .. (HoursPerDay - 1)

Symbols == {"AAPL", "SLV"}

None == 0 - 1       \* no entry / no value


NoMsg == [topic |-> "none", ok |-> FALSE, symbol |-> "", signal |-> "", conf |-> 0]

(* Payloads a producer may put on a topic.  ok = json.Unmarshal succeeds. *)
Signals == {SignalBuy, SignalSell, SignalWatch, "HOLD"}
Confidences == {50, 60, 150}

DecisionMsgs ==
    {[topic |-> DecisionTopic, ok |-> FALSE, symbol |-> "", signal |-> "", conf |-> 0]}
    \cup {[topic |-> DecisionTopic, ok |-> TRUE, symbol |-> s, signal |-> g, conf |-> k] :
             s \in Symbols, g \in Signals, k \in Confidences}

RankingMsgs ==
    {[topic |-> RankingTopic, ok |-> b, symbol |-> "", signal |-> "", conf |-> 0] :
        b \in BOOLEAN}

MsgsOf(topic) == IF topic = DecisionTopic THEN DecisionMsgs ELSE RankingMsgs

(* A claim is one partition of one subscribed topic: <<topic, partition>>. *)
Claims == {<<DecisionTopic, 0>>, <<RankingTopic, 0>>}

(* Configurations config.Load can produce (every field comes from the environment). *)
MkConfig(buy, sell, watch, rank, cd, q) ==
    [MinConfidence |-> DefaultMinConfidence,
     AlertOnBuy |-> buy, AlertOnSell |-> sell, AlertOnWatch |-> watch,
     AlertOnRankings |-> rank, RankingsTopN |-> DefaultRankingsTopN,
     CooldownMinutes |-> cd,
     QuietHoursStart |-> q.QuietHoursStart, QuietHoursEnd |-> q.QuietHoursEnd,
     EnableQuietHours |-> q.EnableQuietHours]

QuietOff   == [EnableQuietHours |-> FALSE, QuietHoursStart |-> 22, QuietHoursEnd |-> 7]
QuietNight == [EnableQuietHours |-> TRUE,  QuietHoursStart |-> 22, QuietHoursEnd |-> 7]
QuietNoon  == [EnableQuietHours |-> TRUE,  QuietHoursStart |-> 13, QuietHoursEnd |-> 14]

Configs ==
    {MkConfig(TRUE,  TRUE, FALSE, TRUE,  1, QuietOff),     \* the defaults, 1 minute cooldown
     MkConfig(FALSE, TRUE, FALSE, TRUE,  1, QuietOff),
     MkConfig(TRUE,  TRUE, FALSE, FALSE, 1, QuietNight),
     MkConfig(TRUE,  TRUE, TRUE,  TRUE,  1, QuietNoon),
     MkConfig(TRUE,  TRUE, FALSE, TRUE,  0, QuietOff),
     MkConfig(TRUE,  FALSE, FALSE, FALSE, 0, QuietNight)}

-----------------------------------------------------------------------------
(* internal/service: the gate predicates *)

(* Mutant: the quotient is rounded to the nearest integer. *)
TruncDivRounded(a, b) == (2 * a + b) \div (2 * b)

(* int(x) of a quotient: truncation toward zero. *)
TruncDiv(a, b) == IF a >= 0 THEN a \div b ELSE -((-a) \div b)

(* Mutant: the default branch lets unknown signal types through. *)
shouldAlertForSignalFailOpen(signal) ==
    CASE signal = SignalBuy   -> config.AlertOnBuy
      [] signal = SignalSell  -> config.AlertOnSell
      [] signal = SignalWatch -> config.AlertOnWatch
      [] OTHER                -> TRUE

shouldAlertForSignal(signal) ==
    CASE signal = SignalBuy   -> config.AlertOnBuy
      [] signal = SignalSell  -> config.AlertOnSell
      [] signal = SignalWatch -> config.AlertOnWatch
      [] OTHER                -> FALSE

meetsConfidence(confidence) == ~(confidence < config.MinConfidence)

(* checkCooldown, first half: the map read under RLock. None = !exists. *)
cooldownLookup(symbol) ==
    IF symbol \in DOMAIN cooldowns THEN cooldowns[symbol] ELSE None

cooldownDuration == config.CooldownMinutes * Minute

(* Mutant: the comparison with the duration is strict. *)
cooldownElapsedStrict(last, t) ==
    IF last = None THEN TRUE ELSE (t - last) > cooldownDuration

(* Mutant: the duration is compared without the time.Minute factor. *)
cooldownElapsedNoUnit(last, t) ==
    IF last = None THEN TRUE ELSE (t - last) >= config.CooldownMinutes

(* checkCooldown, second half: time.Since(lastAlert) >= cooldownDuration. *)
cooldownElapsed(last, t) ==
    IF last = None THEN TRUE ELSE (t - last) >= cooldownDuration

checkCooldown(symbol) == cooldownElapsed(cooldownLookup(symbol), now)

(* Mutant: the write replaces the map by one holding the symbol alone. *)
setCooldownAlone(symbol) == [s \in {symbol} |-> now]

(* setCooldown: s.cooldowns[symbol] = time.Now() under Lock. *)
setCooldown(symbol) ==
    [s \in (DOMAIN cooldowns) \cup {symbol} |->
        IF s = symbol THEN now ELSE cooldowns[s]]

(* Mutant: the end hour is taken into the window. *)
isQuietHoursClosedEnd(hour) ==
    IF ~config.EnableQuietHours THEN FALSE
    ELSE LET start == config.QuietHoursStart
             end   == config.QuietHoursEnd
         IN  IF start > end
             THEN hour >= start \/ hour <= end
             ELSE hour >= start /\ hour <= end

isQuietHours(hour) ==
    IF ~config.EnableQuietHours THEN FALSE
    ELSE LET start == config.QuietHoursStart
             end   == config.QuietHoursEnd
         IN  IF start > end
             THEN hour >= start \/ hour < end
             ELSE hour >= start /\ hour < end

(* internal/service: formatConfidenceBar.  int() truncates toward zero;     *)
(* strings.Repeat panics on a negative count.                               *)
Repeat(x, n) == [i \in 1 .. n |-> x]

formatConfidenceBar(confidence) ==
    LET filled == TruncDiv(confidence * BarSegments, 100)
        empty  == BarSegments - filled
    IN  IF filled < 0 \/ empty < 0 THEN "panic"
        ELSE Repeat("filled", filled) \o Repeat("empty", empty)


-----------------------------------------------------------------------------
(* State after main has built the service and the consumer, wired both     *)
(* handlers and a consumer-group session has handed out its claims.         *)

NoCooldowns == [s \in {} |-> 0]
NoTimes(ss) == [s \in ss |-> None]
Note(h, symbol, t) == IF symbol \in DOMAIN h THEN [h EXCEPT ![symbol] = t] ELSE h

InitClaims(cs) ==
    /\ pc        = [c \in cs |-> "poll"]
    /\ cur       = [c \in cs |-> NoMsg]
    /\ evt       = [c \in cs |-> "none"]
    /\ lastAlert = [c \in cs |-> None]
    /\ checks    = [c \in cs |-> <<>>]
    /\ hres      = [c \in cs |-> "none"]
    /\ ninvoked  = [c \in cs |-> 0]
    /\ nsink     = [c \in cs |-> 0]
    /\ sres      = [c \in cs |-> "none"]
    /\ received  = [c \in cs |-> FALSE]
    /\ prev      = [c \in cs |-> "none"]
    /\ nmarks    = [c \in cs |-> 0]
    /\ redeliver = [c \in cs |-> NoMsg]

InitService(tracked) ==
    /\ cooldowns = NoCooldowns          \* NewAlertService: make(map[string]time.Time)
    /\ now = 0
    /\ accepted = NoTimes(tracked)
    /\ sentOK = NoTimes(tracked)

(* NewConsumer: ready = make(chan bool); nothing started yet. *)
InitLife ==
    /\ ready = 0
    /\ nchan = 1
    /\ closedCh = [i \in {0} |-> 0]
    /\ mpc = "new"
    /\ waitCh = None
    /\ gpc = "none"
    /\ hready = None
    /\ startCtx = FALSE
    /\ nconsume = 0
    /\ nsetup = 0

NoEvent == [kind |-> "none"]

NoProbe == [symbol |-> "", at |-> None, ok |-> FALSE]

InitUnit ==
    /\ qhour = None
    /\ qres = FALSE
    /\ cdprobe = NoProbe
    /\ cpc = "none"
    /\ clientClosed = FALSE
    /\ readers = {}
    /\ writers = {}
    /\ rin = NoEvent
    /\ rout = <<>>

Init ==
    /\ config \in Configs
    /\ InitClaims(Claims)
    /\ InitService({})
    /\ ctxDone = FALSE
    /\ alive = TRUE
    /\ InitLife
    /\ InitUnit

-----------------------------------------------------------------------------
(* internal/kafka: consumerGroupHandler.ConsumeClaim *)

decisionHandler == "HandleDecisionEvent"    \* main: consumer.SetDecisionHandler
rankingHandler  == "HandleRankingEvent"     \* main: consumer.SetRankingHandler

Upd(f, c, v) == [f EXCEPT ![c] = v]

(* Mutant: every payload is deserialized and handled as a decision. *)
RouteAllDecision(m) ==
    IF ~m.ok THEN [pc |-> "unmarshal_err", evt |-> "none",          inv |-> 0]
             ELSE [pc |-> "d_signal",      evt |-> "DecisionEvent", inv |-> 1]

(* The switch on message.Topic with json.Unmarshal: where the loop goes     *)
(* next, and the type of the event value it hands to the handler.           *)
Route(m) ==
    CASE m.topic = DecisionTopic /\ decisionHandler # "nil" ->
            IF ~m.ok THEN [pc |-> "unmarshal_err", evt |-> "none",          inv |-> 0]
                     ELSE [pc |-> "d_signal",      evt |-> "DecisionEvent", inv |-> 1]
      [] m.topic = RankingTopic /\ rankingHandler # "nil" ->
            IF ~m.ok THEN [pc |-> "unmarshal_err", evt |-> "none",          inv |-> 0]
                     ELSE [pc |-> "r_enabled",     evt |-> "RankingEvent",  inv |-> 1]
      [] OTHER -> [pc |-> "mark", evt |-> "none", inv |-> 0]

(* Mutant: the offset is marked as soon as the message is taken. *)
MarksAtReceiveEarly(m) == 1

(* Marks the loop has made by the time it leaves the receive step. *)
MarksAtReceive(m) == 0

(* case message, ok := <-claim.Messages(): a redelivery first, else a fresh message. *)
Receive(c) ==
    /\ alive /\ pc[c] = "poll"
    /\ \E m \in IF redeliver[c] # NoMsg THEN {redeliver[c]} ELSE MsgsOf(c[1]) :
          /\ cur' = Upd(cur, c, m)
          /\ pc' = Upd(pc, c, Route(m).pc)
          /\ evt' = Upd(evt, c, Route(m).evt)
          /\ ninvoked' = Upd(ninvoked, c, Route(m).inv)
          /\ nmarks' = Upd(nmarks, c, MarksAtReceive(m))
    /\ redeliver' = Upd(redeliver, c, NoMsg)
    /\ lastAlert' = Upd(lastAlert, c, None)
    /\ checks' = Upd(checks, c, <<>>)
    /\ hres' = Upd(hres, c, "none")
    /\ nsink' = Upd(nsink, c, 0)
    /\ sres' = Upd(sres, c, "none")
    /\ received' = Upd(received, c, TRUE)
    /\ prev' = Upd(prev, c, "none")
    /\ UNCHANGED <<config, svcVars, ctxDone, alive, lifeVars, unitVars>>

(* The loop body ends (continue, its closing brace, or a return) after      *)
(* `marks` calls of session.MarkMessage: the locals are dead.               *)
EndIteration(c, next, marks) ==
    /\ nmarks' = Upd(nmarks, c, nmarks[c] + marks)
    /\ pc' = Upd(pc, c, next)
    /\ cur' = Upd(cur, c, NoMsg)
    /\ evt' = Upd(evt, c, "none")
    /\ checks' = Upd(checks, c, <<>>)
    /\ hres' = Upd(hres, c, "none")
    /\ ninvoked' = Upd(ninvoked, c, 0)
    /\ nsink' = Upd(nsink, c, 0)
    /\ sres' = Upd(sres, c, "none")
    /\ prev' = Upd(prev, c, IF pc[c] = "unmarshal_err" THEN "unmarshal_err"
                            ELSE IF hres[c] = "none" THEN "unhandled" ELSE hres[c])

(* Mutant: the unmarshal-error branch forgets MarkMessage. *)
AfterUnmarshalErrNoMark == [marks |-> 0, next |-> "poll"]

(* The unmarshal-error branch: log, MarkMessage, continue. *)
AfterUnmarshalErr == [marks |-> 1, next |-> "poll"]

UnmarshalFailed(c) ==
    /\ alive /\ pc[c] = "unmarshal_err"
    /\ IF AfterUnmarshalErr.next = "mark"        \* no continue: falls out of the switch
       THEN /\ nmarks' = Upd(nmarks, c, nmarks[c] + AfterUnmarshalErr.marks)
            /\ pc' = Upd(pc, c, "mark")
            /\ UNCHANGED <<cur, evt, checks, hres, ninvoked, nsink, sres, prev>>
       ELSE EndIteration(c, AfterUnmarshalErr.next, AfterUnmarshalErr.marks)
    /\ UNCHANGED <<config, lastAlert, received, redeliver, svcVars, ctxDone, alive,
                   lifeVars, unitVars>>

(* Mutant: the end of the loop body leaves the message unmarked. *)
MarksAtEndSkipped == 1 - 1

(* session.MarkMessage(message, "") at the end of the loop body. *)
MarksAtEnd == 1

Mark(c) ==
    /\ alive /\ pc[c] = "mark"
    /\ EndIteration(c, "poll", MarksAtEnd)
    /\ UNCHANGED <<config, lastAlert, received, redeliver, svcVars, ctxDone, alive,
                   lifeVars, unitVars>>

(* case <-session.Context().Done(): return nil.  (The other way out, a     *)
(* closed claim.Messages(), also happens only once the session has ended.) *)
ExitOnDone(c) ==
    /\ alive /\ pc[c] = "poll" /\ ctxDone
    /\ pc' = Upd(pc, c, "exited")
    /\ UNCHANGED <<config, cur, evt, lastAlert, checks, hres, ninvoked, nsink, sres,
                   nmarks, received, prev, redeliver, svcVars, ctxDone, alive,
                   lifeVars, unitVars>>


-----------------------------------------------------------------------------
(* internal/service: AlertService.HandleDecisionEvent, one action per step  *)
(* between two reads of shared state or of the clock.                       *)

Logged(c, name, passed) == Upd(checks, c, Append(checks[c], <<name, passed>>))

(* Mutant: every return of the handler carries an error. *)
ReturnAsError(c, r) ==
    /\ hres' = Upd(hres, c, "err")
    /\ pc' = Upd(pc, c, "mark")

(* return <r> from the handler: back in ConsumeClaim, which logs and goes on. *)
Return(c, r) ==
    /\ hres' = Upd(hres, c, r)
    /\ pc' = Upd(pc, c, "mark")

(* the type assertion on DecisionEvent, then shouldAlertForSignal(data.Signal). *)
CheckSignal(c) ==
    /\ alive /\ pc[c] = "d_signal"
    /\ IF evt[c] # "DecisionEvent"
       THEN Return(c, "err") /\ UNCHANGED checks
       ELSE /\ checks' = Logged(c, "signal", shouldAlertForSignal(cur[c].signal))
            /\ IF shouldAlertForSignal(cur[c].signal)
               THEN pc' = Upd(pc, c, "d_conf") /\ UNCHANGED hres
               ELSE Return(c, "nil")
    /\ UNCHANGED <<config, cur, evt, lastAlert, ninvoked, nsink, sres, nmarks, received, prev,
                   redeliver, svcVars, ctxDone, alive, lifeVars, unitVars>>

(* if data.Confidence < s.config.MinConfidence { return nil } *)
CheckConfidence(c) ==
    /\ alive /\ pc[c] = "d_conf"
    /\ checks' = Logged(c, "confidence", meetsConfidence(cur[c].conf))
    /\ IF meetsConfidence(cur[c].conf)
       THEN pc' = Upd(pc, c, "d_cool") /\ UNCHANGED hres
       ELSE Return(c, "nil")
    /\ UNCHANGED <<config, cur, evt, lastAlert, ninvoked, nsink, sres, nmarks, received, prev,
                   redeliver, svcVars, ctxDone, alive, lifeVars, unitVars>>

(* checkCooldown: lastAlert, exists := s.cooldowns[symbol] under RLock;     *)
(* if !exists { return true }                                               *)
CooldownRead(c) ==
    /\ alive /\ pc[c] = "d_cool"
    /\ lastAlert' = Upd(lastAlert, c, cooldownLookup(cur[c].symbol))
    /\ IF cooldownLookup(cur[c].symbol) = None
       THEN /\ checks' = Logged(c, "cooldown", TRUE)
            /\ pc' = Upd(pc, c, "d_quiet")
       ELSE /\ pc' = Upd(pc, c, "d_since")
            /\ UNCHANGED checks
    /\ UNCHANGED <<config, cur, evt, hres, ninvoked, nsink, sres, nmarks, received, prev,
                   redeliver, svcVars, ctxDone, alive, lifeVars, unitVars>>

(* checkCooldown: return time.Since(lastAlert) >= cooldownDuration *)
CooldownSince(c) ==
    /\ alive /\ pc[c] = "d_since"
    /\ checks' = Logged(c, "cooldown", cooldownElapsed(lastAlert[c], now))
    /\ IF cooldownElapsed(lastAlert[c], now)
       THEN pc' = Upd(pc, c, "d_quiet") /\ UNCHANGED hres
       ELSE Return(c, "nil")
    /\ lastAlert' = Upd(lastAlert, c, None)        \* the local is dead from here
    /\ UNCHANGED <<config, cur, evt, ninvoked, nsink, sres, nmarks, received, prev, redeliver,
                   svcVars,
                   ctxDone, alive, lifeVars, unitVars>>

(* if s.isQuietHours() { return nil }; formatDecisionMessage (which panics  *)
(* when the confidence bar does); telegramClient.SendMessage is called.     *)
CheckQuiet(c) ==
    /\ alive /\ pc[c] = "d_quiet"
    /\ \E hour \in Hours :
          /\ checks' = Logged(c, "quiet", ~isQuietHours(hour))
          /\ IF isQuietHours(hour)
             THEN /\ Return(c, "nil")
                  /\ UNCHANGED <<nsink, alive, accepted>>
             ELSE /\ accepted' = Note(accepted, cur[c].symbol, now)
                  /\ UNCHANGED hres
                  /\ IF formatConfidenceBar(cur[c].conf) = "panic"
                     THEN /\ pc' = Upd(pc, c, "panicked")
                          /\ alive' = FALSE
                          /\ UNCHANGED nsink
                     ELSE /\ pc' = Upd(pc, c, "d_sending")
                          /\ nsink' = Upd(nsink, c, nsink[c] + 1)
                          /\ UNCHANGED alive
    /\ UNCHANGED <<config, cur, evt, lastAlert, ninvoked, sres, nmarks, received, prev,
                   redeliver, cooldowns, now, sentOK, ctxDone, lifeVars, unitVars>>

(* Mutant: the cooldown is recorded whatever SendMessage returned. *)
AfterDecisionSendAlways(ok) == "d_setcd"

(* What HandleDecisionEvent does with the result of SendMessage. *)
AfterDecisionSend(ok) == IF ok THEN "d_setcd" ELSE "return_err"

(* telegram.Client.SendMessageWithParseMode: the request is built with the  *)
(* ctx the handler was given (session.Context()), so httpClient.Do ends     *)
(* with nil ("ok"), with a remote failure or the client's 30 s timeout      *)
(* ("fail"), or, once that ctx is cancelled, with the ctx error ("aborted"). *)
SendResults(cancelled) ==
    {"ok", "fail"} \cup (IF cancelled THEN {"aborted"} ELSE {})

(* SendMessage returns: nil, or an error. *)
DecisionSendDone(c) ==
    /\ alive /\ pc[c] = "d_sending"
    /\ \E r \in SendResults(ctxDone) : LET ok == r = "ok" IN
          /\ IF AfterDecisionSend(ok) = "return_err"
             THEN Return(c, "err")
             ELSE pc' = Upd(pc, c, AfterDecisionSend(ok)) /\ UNCHANGED hres
          /\ sentOK' = IF ok THEN Note(sentOK, cur[c].symbol, now) ELSE sentOK
          /\ sres' = Upd(sres, c, r)
    /\ UNCHANGED <<config, cur, evt, lastAlert, checks, ninvoked, nsink, nmarks,
                   received, prev, redeliver, cooldowns, now, accepted,
                   ctxDone, alive, lifeVars, unitVars>>

(* s.setCooldown(data.Symbol); return nil *)
SetCooldown(c) ==
    /\ alive /\ pc[c] = "d_setcd"
    /\ cooldowns' = setCooldown(cur[c].symbol)
    /\ Return(c, "nil")
    /\ UNCHANGED <<config, cur, evt, lastAlert, checks, ninvoked, nsink, sres, nmarks,
                   received, prev, redeliver, now, accepted, sentOK,
                   ctxDone, alive, lifeVars, unitVars>>

-----------------------------------------------------------------------------
(* internal/service: AlertService.HandleRankingEvent *)

rankingsEnabled == config.AlertOnRankings

(* Mutant: a sent ranking records a cooldown under its signal type. *)
cooldownsAfterRankingRecorded == setCooldown(SignalBuy)

(* The cooldown map after a ranking alert has been sent. *)
cooldownsAfterRanking == cooldowns

(* the type assertion on RankingEvent; if !s.config.AlertOnRankings { return nil } *)
RankingEnabled(c) ==
    /\ alive /\ pc[c] = "r_enabled"
    /\ IF evt[c] # "RankingEvent"
       THEN Return(c, "err") /\ UNCHANGED checks
       ELSE /\ checks' = Logged(c, "rankings", rankingsEnabled)
            /\ IF rankingsEnabled
               THEN pc' = Upd(pc, c, "r_quiet") /\ UNCHANGED hres
               ELSE Return(c, "nil")
    /\ UNCHANGED <<config, cur, evt, lastAlert, ninvoked, nsink, sres, nmarks, received, prev,
                   redeliver, svcVars, ctxDone, alive, lifeVars, unitVars>>

(* if s.isQuietHours() { return nil }; formatRankingMessage; SendMessage is called. *)
RankingQuiet(c) ==
    /\ alive /\ pc[c] = "r_quiet"
    /\ \E hour \in Hours :
          /\ checks' = Logged(c, "quiet", ~isQuietHours(hour))
          /\ IF isQuietHours(hour)
             THEN Return(c, "nil") /\ UNCHANGED nsink
             ELSE /\ pc' = Upd(pc, c, "r_sending")
                  /\ nsink' = Upd(nsink, c, nsink[c] + 1)
                  /\ UNCHANGED hres
    /\ UNCHANGED <<config, cur, evt, lastAlert, ninvoked, sres, nmarks, received, prev,
                   redeliver, svcVars, ctxDone, alive, lifeVars, unitVars>>

(* SendMessage returns; the handler returns nil or the wrapped error. *)
RankingSendDone(c) ==
    /\ alive /\ pc[c] = "r_sending"
    /\ \E r \in SendResults(ctxDone) : LET ok == r = "ok" IN
          /\ Return(c, IF ok THEN "nil" ELSE "err")
          /\ cooldowns' = IF ok THEN cooldownsAfterRanking ELSE cooldowns
          /\ sres' = Upd(sres, c, r)
    /\ UNCHANGED <<config, cur, evt, lastAlert, checks, ninvoked, nsink, nmarks,
                   received, prev, redeliver, now, accepted, sentOK,
                   ctxDone, alive, lifeVars, unitVars>>

-----------------------------------------------------------------------------
(* Environment *)

(* The clock advances. *)
Tick ==
    /\ now < MaxTime
    /\ now' = now + 1
    /\ UNCHANGED <<config, claimVars, cooldowns, accepted, sentOK, ctxDone, alive,
                   lifeVars, unitVars>>

(* The session context is cancelled (rebalance, or shutdown). *)
Cancel ==
    /\ alive /\ ~ctxDone
    /\ ctxDone' = TRUE
    /\ UNCHANGED <<config, claimVars, svcVars, alive, lifeVars, unitVars>>

(* The process dies (a panic has killed it, or it is killed from outside)   *)
(* and is started again: memory is lost, the broker redelivers from the     *)
(* first unmarked offset of each claim.                                     *)
CrashRestart ==
    /\ redeliver' = [c \in DOMAIN pc |->
                        IF cur[c] # NoMsg /\ nmarks[c] = 0 THEN cur[c] ELSE redeliver[c]]
    /\ pc'        = [c \in DOMAIN pc |-> "poll"]
    /\ cur'       = [c \in DOMAIN pc |-> NoMsg]
    /\ evt'       = [c \in DOMAIN pc |-> "none"]
    /\ lastAlert' = [c \in DOMAIN pc |-> None]
    /\ checks'    = [c \in DOMAIN pc |-> <<>>]
    /\ hres'      = [c \in DOMAIN pc |-> "none"]
    /\ ninvoked'  = [c \in DOMAIN pc |-> 0]
    /\ nsink'     = [c \in DOMAIN pc |-> 0]
    /\ sres'      = [c \in DOMAIN pc |-> "none"]
    /\ received'  = [c \in DOMAIN pc |-> FALSE]
    /\ prev'      = [c \in DOMAIN pc |-> "none"]
    /\ nmarks'    = [c \in DOMAIN pc |-> 0]
    /\ cooldowns' = NoCooldowns
    /\ accepted'  = NoTimes(DOMAIN accepted)
    /\ sentOK'    = NoTimes(DOMAIN sentOK)
    /\ ctxDone'   = FALSE
    /\ alive'     = TRUE
    /\ UNCHANGED <<config, now, lifeVars, unitVars>>

Next ==
    \/ \E c \in DOMAIN pc :
          \/ Receive(c)
          \/ UnmarshalFailed(c)
          \/ Mark(c)
          \/ ExitOnDone(c)
          \/ CheckSignal(c)
          \/ CheckConfidence(c)
          \/ CooldownRead(c)
          \/ CooldownSince(c)
          \/ CheckQuiet(c)
          \/ DecisionSendDone(c)
          \/ SetCooldown(c)
          \/ RankingEnabled(c)
          \/ RankingQuiet(c)
          \/ RankingSendDone(c)
    \/ Tick
    \/ Cancel
    \/ CrashRestart

Spec == Init /\ [][Next]_vars


-----------------------------------------------------------------------------
(* Vocabulary of the properties *)

DecisionPcs == {"d_signal", "d_conf", "d_cool", "d_since", "d_quiet", "d_sending", "d_setcd"}
RankingPcs  == {"r_enabled", "r_quiet", "r_sending"}
HandlerPcs  == DecisionPcs \cup RankingPcs

(* The event is one of the data model: confidence in [0,1]. *)
InDataModel(m) == m.conf >= 0 /\ m.conf <= 100

CheckNames(c) == [i \in 1 .. Len(checks[c]) |-> checks[c][i][1]]
PassedAll(c, n) == Len(checks[c]) = n /\ \A i \in 1 .. n : checks[c][i][2]
IsPrefix(a, b) == Len(a) <= Len(b) /\ \A i \in 1 .. Len(a) : a[i] = b[i]

DecisionGateOrder == <<"signal", "confidence", "cooldown", "quiet">>
RankingGateOrder  == <<"rankings", "quiet">>

SignalEnabled(signal) ==
    \/ signal = "BUY" /\ config.AlertOnBuy
    \/ signal = "SELL" /\ config.AlertOnSell
    \/ signal = "WATCH" /\ config.AlertOnWatch

-----------------------------------------------------------------------------
(* C1: whatever mix of valid and malformed messages the two topics deliver, *)
(* every message the loop has finished with was marked exactly once (never  *)
(* twice, and never zero times once the loop is back at its select), and    *)
(* the loop is left only through the cancelled session context: a malformed *)
(* payload is marked and the loop goes back to take the next message; the   *)
(* loop dies only on a message that is neither valid nor malformed (one     *)
(* that deserializes but lies outside the data model).                      *)
C1_MarkedExactlyOnce ==
    \A c \in DOMAIN pc :
        /\ nmarks[c] <= 1
        /\ (received[c] /\ pc[c] \in {"poll", "exited"} => nmarks[c] = 1)
        /\ (pc[c] = "exited" => ctxDone)
        /\ (prev[c] = "unmarshal_err" => pc[c] \in {"poll", "exited"} /\ nmarks[c] = 1)
        /\ (pc[c] = "panicked" => cur[c].ok /\ ~InDataModel(cur[c]))

(* A malformed ranking payload has been marked and its loop is back at the  *)
(* select, while the decision claim has marked a message of its own.        *)
C1_Witness ==
    /\ prev[<<RankingTopic, 0>>] = "unmarshal_err"
    /\ pc[<<RankingTopic, 0>>] = "poll" /\ nmarks[<<RankingTopic, 0>>] = 1 /\ alive
    /\ prev[<<DecisionTopic, 0>>] \in {"nil", "err"}
    /\ nmarks[<<DecisionTopic, 0>>] = 1

(* C2: a message that deserializes is marked only in a step taken after its *)
(* handler was invoked (once) and has returned nil or an error; no mark     *)
(* precedes delivery; and a message whose processing ends without a mark    *)
(* (the process died first) is redelivered after the restart.               *)
C2_MarkAfterHandler ==
    [][\A c \in DOMAIN pc :
          /\ (nmarks'[c] > nmarks[c] => cur[c] # NoMsg)
          /\ (nmarks'[c] > nmarks[c] /\ cur[c].ok =>
                 ninvoked[c] = 1 /\ hres[c] \in {"nil", "err"})
          /\ (pc'[c] \in HandlerPcs => nmarks'[c] = 0)
          /\ (cur[c] # NoMsg /\ cur'[c] = NoMsg /\ nmarks'[c] = 0 =>
                 redeliver'[c] = cur[c])]_vars

(* A decision died unmarked inside its handler and is due for redelivery,   *)
(* while the ranking claim marked a message after its handler returned.     *)
C2_Witness ==
    /\ redeliver[<<DecisionTopic, 0>>] # NoMsg
    /\ redeliver[<<DecisionTopic, 0>>].ok
    /\ prev[<<RankingTopic, 0>>] \in {"nil", "err"}
    /\ nmarks[<<RankingTopic, 0>>] = 1

(* C3: the decision gate evaluates signal, confidence, cooldown, quiet      *)
(* hours in that order and stops at the first failing check; the signal     *)
(* check lets through only an enabled BUY/SELL/WATCH, the confidence check  *)
(* only confidence >= MinConfidence; and the Sink is invoked (once) exactly *)
(* when all four checks passed.                                             *)
C3_GateOrder ==
    \A c \in DOMAIN pc :
        evt[c] = "DecisionEvent" =>
            /\ IsPrefix(CheckNames(c), DecisionGateOrder)
            /\ \A i \in 1 .. Len(checks[c]) - 1 : checks[c][i][2]
            /\ (Len(checks[c]) >= 1 => checks[c][1][2] = SignalEnabled(cur[c].signal))
            /\ (Len(checks[c]) >= 2 =>
                   checks[c][2][2] = (cur[c].conf >= config.MinConfidence))
            /\ nsink[c] <= 1
            /\ (nsink[c] = 1 => PassedAll(c, 4))
            /\ (InDataModel(cur[c]) /\ PassedAll(c, 4) => nsink[c] = 1)
            /\ ((\E i \in 1 .. Len(checks[c]) : ~checks[c][i][2]) =>
                   pc[c] = "mark" /\ hres[c] = "nil" /\ nsink[c] = 0)

(* A decision passed all four checks and its send is in flight. *)
C3_Witness ==
    \E c \in DOMAIN pc :
        /\ pc[c] = "d_sending" /\ PassedAll(c, 4) /\ nsink[c] = 1
        /\ config.EnableQuietHours

(* C5 as stated: once a decision has passed all four checks and its handler *)
(* has returned, a cooldown is recorded for its symbol, whether the send    *)
(* succeeded or failed.                                                     *)
C5_RecordedRegardless ==
    \A c \in DOMAIN pc :
        evt[c] = "DecisionEvent" /\ PassedAll(c, 4) /\ pc[c] = "mark" =>
            cur[c].symbol \in DOMAIN cooldowns

(* C5 amended: the cooldown of the symbol is recorded exactly when the send *)
(* succeeded: after a failed send the handler returns the error and leaves  *)
(* the cooldown map as it was; after a successful send it writes the        *)
(* current time for that symbol, and only for it.                           *)
C5_RecordedOnSuccessOnly ==
    [][\A c \in DOMAIN pc :
          /\ (pc[c] = "d_sending" /\ pc'[c] = "mark" =>
                 sres'[c] # "ok" /\ hres'[c] = "err" /\ cooldowns' = cooldowns)
          /\ (pc[c] = "d_sending" /\ pc'[c] = "d_setcd" =>
                 sres'[c] = "ok" /\ cooldowns' = cooldowns)
          /\ (pc[c] = "d_setcd" /\ pc'[c] = "mark" =>
                 /\ sres[c] = "ok" /\ hres'[c] = "nil"
                 /\ DOMAIN cooldowns' = DOMAIN cooldowns \cup {cur[c].symbol}
                 /\ cooldowns'[cur[c].symbol] = now
                 /\ \A s \in DOMAIN cooldowns \ {cur[c].symbol} :
                        cooldowns'[s] = cooldowns[s])]_vars

(* A send failed, the handler returned the error, and the symbol has no     *)
(* cooldown although another symbol has one.                                *)
C5_Witness ==
    \E c \in DOMAIN pc :
        /\ pc[c] = "mark" /\ sres[c] = "fail" /\ hres[c] = "err"
        /\ cur[c].symbol \notin DOMAIN cooldowns
        /\ cooldowns # NoCooldowns

(* C8: the ranking handler evaluates only rankings-enabled and then quiet   *)
(* hours, never confidence or cooldown; the Sink is invoked exactly when    *)
(* both passed; and no step of the handler (skip, send, failed send)        *)
(* changes the cooldown map.                                                *)
C8_RankingGate ==
    [][\A c \in DOMAIN pc :
          /\ (evt'[c] = "RankingEvent" =>
                 /\ IsPrefix(CheckNames(c)', RankingGateOrder)
                 /\ (Len(checks'[c]) >= 1 => checks'[c][1][2] = config.AlertOnRankings)
                 /\ \A i \in 1 .. Len(checks'[c]) - 1 : checks'[c][i][2]
                 /\ (nsink'[c] = 1 <=> PassedAll(c, 2)')
                 /\ nsink'[c] <= 1)
          /\ (pc[c] \in RankingPcs /\ pc'[c] \in RankingPcs \cup {"mark"}
                 /\ pc'[c] # pc[c] => cooldowns' = cooldowns)]_vars

(* A ranking alert was sent while the cooldown map holds an entry. *)
C8_Witness ==
    \E c \in DOMAIN pc :
        /\ evt[c] = "RankingEvent" /\ pc[c] = "mark" /\ sres[c] = "ok"
        /\ cooldowns # NoCooldowns


-----------------------------------------------------------------------------
(* One claim of the decision topic on its own: its messages are handled     *)
(* one after the other.  The history of accepted and of successfully sent   *)
(* decisions is kept for every symbol.                                      *)

DecisionClaim == <<DecisionTopic, 0>>

InitSeq ==
    /\ config \in Configs
    /\ InitClaims({DecisionClaim})
    /\ InitService(Symbols)
    /\ ctxDone = FALSE
    /\ alive = TRUE
    /\ InitLife
    /\ InitUnit

NextSeq ==
    \/ Receive(DecisionClaim)
    \/ UnmarshalFailed(DecisionClaim)
    \/ Mark(DecisionClaim)
    \/ ExitOnDone(DecisionClaim)
    \/ CheckSignal(DecisionClaim)
    \/ CheckConfidence(DecisionClaim)
    \/ CooldownRead(DecisionClaim)
    \/ CooldownSince(DecisionClaim)
    \/ CheckQuiet(DecisionClaim)
    \/ DecisionSendDone(DecisionClaim)
    \/ SetCooldown(DecisionClaim)
    \/ Tick
    \/ Cancel
    \/ CrashRestart

SpecSeq == InitSeq /\ [][NextSeq]_vars

(* The last event of kind h for the symbol in hand lies less than the       *)
(* configured cooldown (of at least one minute) back.                       *)
WithinCooldownOf(h, c) ==
    /\ config.CooldownMinutes >= 1
    /\ h[cur[c].symbol] # None
    /\ now - h[cur[c].symbol] < cooldownDuration

(* C4 as stated: once the gate has accepted a decision for a symbol, a      *)
(* decision for the same symbol handled afterwards, less than the cooldown  *)
(* (of at least a minute) later, is suppressed: the Sink is not invoked for *)
(* it.                                                                      *)
C4_SuppressedAfterAccepted ==
    [][\A c \in DOMAIN pc :
          nsink'[c] > nsink[c] => ~WithinCooldownOf(accepted, c)]_vars

(* C4 amended: once a decision for a symbol has been accepted by the gate   *)
(* and sent successfully, a decision for the same symbol handled afterwards *)
(* by the same process, less than the cooldown (of at least a minute)       *)
(* later, is suppressed: its cooldown check fails, the handler returns nil  *)
(* and the Sink is not invoked for it.                                      *)
C4_SuppressedAfterSent ==
    [][\A c \in DOMAIN pc :
          /\ (nsink'[c] > nsink[c] => ~WithinCooldownOf(sentOK, c))
          /\ (pc[c] = "d_cool" /\ pc'[c] = "d_quiet" => sentOK[cur[c].symbol] = None)
          /\ (pc[c] = "d_since" /\ pc'[c] \in {"d_quiet", "mark"}
                 /\ WithinCooldownOf(sentOK, c) =>
                    /\ pc'[c] = "mark" /\ hres'[c] = "nil" /\ nsink'[c] = 0
                    /\ checks'[c][Len(checks'[c])] = <<"cooldown", FALSE>>)]_vars

(* A second decision for a symbol was suppressed by the cooldown one tick   *)
(* after the first one was sent.                                            *)
C4_Witness ==
    /\ pc[DecisionClaim] = "mark" /\ hres[DecisionClaim] = "nil"
    /\ nsink[DecisionClaim] = 0
    /\ Len(checks[DecisionClaim]) = 3
    /\ checks[DecisionClaim][3] = <<"cooldown", FALSE>>
    /\ WithinCooldownOf(sentOK, DecisionClaim)
    /\ now - sentOK[cur[DecisionClaim].symbol] = 1


-----------------------------------------------------------------------------
(* The cooldown store on its own: setCooldown and checkCooldown called for  *)
(* any symbol at any time, under every sign of COOLDOWN_MINUTES that        *)
(* config.Load accepts (getEnvInt takes any integer).                       *)

CooldownMinutesValues == {0 - 1, 0, 1}

InitCooldown ==
    /\ config \in {MkConfig(TRUE, TRUE, FALSE, TRUE, cd, QuietOff) :
                      cd \in CooldownMinutesValues}
    /\ InitClaims({})
    /\ InitService(Symbols)
    /\ ctxDone = FALSE
    /\ alive = TRUE
    /\ InitLife
    /\ InitUnit

(* s.setCooldown(symbol); sentOK keeps the time of the call. *)
RecordAlert(symbol) ==
    /\ cooldowns' = setCooldown(symbol)
    /\ sentOK' = Note(sentOK, symbol, now)
    /\ cdprobe' = NoProbe
    /\ UNCHANGED <<config, claimVars, now, accepted, ctxDone, alive, lifeVars,
                   qhour, qres, closeVars, lockVars, renderVars>>

(* s.checkCooldown(symbol) *)
ProbeCooldown(symbol) ==
    /\ cdprobe' = [symbol |-> symbol, at |-> now, ok |-> checkCooldown(symbol)]
    /\ UNCHANGED <<config, claimVars, svcVars, ctxDone, alive, lifeVars, qhour, qres,
                   closeVars, lockVars, renderVars>>

NextCooldown ==
    \/ \E symbol \in Symbols : RecordAlert(symbol)
    \/ \E symbol \in Symbols : ProbeCooldown(symbol)
    \/ Tick

SpecCooldown == InitCooldown /\ [][NextCooldown]_vars

(* What C6 says of the last call of checkCooldown. *)
CooldownLaw ==
    LET last == sentOK[cdprobe.symbol]
    IN  /\ (last = None => cdprobe.ok)
        /\ (last # None /\ cdprobe.at = last => ~cdprobe.ok)
        /\ (last # None /\ cdprobe.at - last >= config.CooldownMinutes * Minute =>
               cdprobe.ok)

(* C6 as stated: for every symbol and every configured cooldown duration,   *)
(* checkCooldown is true before any recordAlert of the symbol, false        *)
(* immediately after one, and true again once the duration has elapsed.     *)
C6_CooldownLawAnyDuration ==
    cdprobe # NoProbe => CooldownLaw

(* C6 amended: for every symbol and every configured cooldown duration of   *)
(* at least one minute, checkCooldown is true before any recordAlert of the *)
(* symbol, false immediately after one, and true again once the duration    *)
(* has elapsed since the last one.                                          *)
C6_CooldownLawPositive ==
    cdprobe # NoProbe /\ config.CooldownMinutes >= 1 => CooldownLaw

(* checkCooldown was called exactly one cooldown after the recordAlert of   *)
(* the symbol and returned true, under a cooldown of a minute.              *)
C6_Witness ==
    /\ cdprobe # NoProbe /\ config.CooldownMinutes >= 1 /\ cdprobe.ok
    /\ sentOK[cdprobe.symbol] # None
    /\ cdprobe.at - sentOK[cdprobe.symbol] = config.CooldownMinutes * Minute

-----------------------------------------------------------------------------
(* isQuietHours on its own, for every window of hours and every hour the    *)
(* local clock can show.                                                    *)

InitQuiet ==
    /\ config \in {MkConfig(TRUE, TRUE, FALSE, TRUE, 1,
                            [EnableQuietHours |-> e, QuietHoursStart |-> a,
                             QuietHoursEnd |-> b]) :
                      e \in BOOLEAN, a \in Hours, b \in Hours}
    /\ InitClaims({})
    /\ InitService({})
    /\ ctxDone = FALSE
    /\ alive = TRUE
    /\ InitLife
    /\ InitUnit

(* hour := time.Now().Hour(); the result of s.isQuietHours() *)
ProbeQuiet ==
    /\ \E hour \in Hours :
          /\ qhour' = hour
          /\ qres' = isQuietHours(hour)
    /\ UNCHANGED <<config, claimVars, svcVars, ctxDone, alive, lifeVars, cdprobe,
                   closeVars, lockVars, renderVars>>

NextQuiet == ProbeQuiet

SpecQuiet == InitQuiet /\ [][NextQuiet]_vars

(* The window of C7. *)
InWindow(h, start, end) ==
    IF start > end THEN h >= start \/ h < end ELSE h >= start /\ h < end

QuietLaw ==
    /\ (~config.EnableQuietHours => qres = FALSE)
    /\ (config.EnableQuietHours =>
           /\ qres = InWindow(qhour, config.QuietHoursStart, config.QuietHoursEnd)
           /\ (qhour = config.QuietHoursEnd => qres = FALSE)
           /\ (config.QuietHoursStart = 22 /\ config.QuietHoursEnd = 7 =>
                  qres = (qhour \in {22, 23} \cup (0 .. 6)))
           /\ (config.QuietHoursStart = 13 /\ config.QuietHoursEnd = 14 =>
                  qres = (qhour = 13)))

(* C7 as stated: isQuietHours is false when quiet hours are disabled; when  *)
(* enabled it is (h >= start or h < end) if start > end, else (h >= start   *)
(* and h < end), for all h, start, end in 0..23; and in particular h =      *)
(* start is quiet, h = end is not, 22/7 makes 22,23,0..6 quiet and 13/14    *)
(* only 13.                                                                 *)
C7_QuietLawStartAlwaysQuiet ==
    qhour # None =>
        /\ QuietLaw
        /\ (config.EnableQuietHours /\ qhour = config.QuietHoursStart => qres = TRUE)

(* C7 amended: as stated, except that h = start is quiet only when start    *)
(* and end differ: with start = end the window is empty and no hour is      *)
(* quiet.                                                                   *)
C7_QuietLaw ==
    qhour # None =>
        /\ QuietLaw
        /\ (config.EnableQuietHours /\ qhour = config.QuietHoursStart
               /\ config.QuietHoursStart # config.QuietHoursEnd => qres = TRUE)
        /\ (config.EnableQuietHours /\ config.QuietHoursStart = config.QuietHoursEnd =>
               qres = FALSE)

(* Hour 23 was found quiet in the overnight window 22 to 7. *)
C7_Witness ==
    /\ qres = TRUE /\ qhour = 23 /\ config.EnableQuietHours
    /\ config.QuietHoursStart = 22 /\ config.QuietHoursEnd = 7


-----------------------------------------------------------------------------
(* internal/kafka: Consumer.Start and the goroutine it starts.              *)
(* Channels are numbered in the order of their make(chan bool); the         *)
(* goroutine writes c.ready while the caller of Start reads it without      *)
(* synchronization, so the caller's read may come before or after any of    *)
(* the goroutine's writes.                                                  *)

InitStart ==
    /\ config = MkConfig(TRUE, TRUE, FALSE, TRUE, 1, QuietOff)
    /\ InitClaims({})
    /\ InitService({})
    /\ ctxDone = FALSE
    /\ alive = TRUE
    /\ InitLife
    /\ InitUnit

lifeFrame == <<config, claimVars, svcVars, ctxDone, alive, unitVars>>

(* Start up to and including `go func() {...}()`. *)
StartSpawn ==
    /\ mpc = "new"
    /\ mpc' = "spawned"
    /\ gpc' = "top"
    /\ UNCHANGED <<ready, nchan, closedCh, waitCh, hready, startCtx, nconsume, nsetup>>
    /\ UNCHANGED lifeFrame

(* <-c.ready, first half: the operand c.ready is evaluated. *)
StartRead ==
    /\ mpc = "spawned"
    /\ waitCh' = ready
    /\ mpc' = "waiting"
    /\ UNCHANGED <<ready, nchan, closedCh, gpc, hready, startCtx, nconsume, nsetup>>
    /\ UNCHANGED lifeFrame

(* Mutant: Start does not wait for the channel. *)
readyFiredAlways(ch) == TRUE

(* A receive from the channel succeeds: it has been closed (nothing is ever sent). *)
readyFired(ch) == closedCh[ch] >= 1

(* <-c.ready, second half: the receive completes; Start logs and returns nil. *)
StartReturn ==
    /\ mpc = "waiting"
    /\ readyFired(waitCh)
    /\ mpc' = "started"
    /\ UNCHANGED <<ready, nchan, closedCh, waitCh, gpc, hready, startCtx, nconsume, nsetup>>
    /\ UNCHANGED lifeFrame

(* The ctx given to Start is cancelled (by its owner, or by Close). *)
CancelStart ==
    /\ mpc # "new" /\ ~startCtx
    /\ startCtx' = TRUE
    /\ UNCHANGED <<ready, nchan, closedCh, mpc, waitCh, gpc, hready, nconsume, nsetup>>
    /\ UNCHANGED lifeFrame

(* handler := &consumerGroupHandler{ready: c.ready}; c.client.Consume(ctx, topics, handler) *)
CallConsume ==
    /\ gpc = "top" /\ nconsume < MaxSessions
    /\ hready' = ready
    /\ nconsume' = nconsume + 1
    /\ gpc' = "consume"
    /\ UNCHANGED <<ready, nchan, closedCh, mpc, waitCh, startCtx, nsetup>>
    /\ UNCHANGED lifeFrame

(* Consume returns an error before any session was set up. *)
ConsumeFail ==
    /\ gpc = "consume"
    /\ gpc' = "after"
    /\ UNCHANGED <<ready, nchan, closedCh, mpc, waitCh, hready, startCtx, nconsume, nsetup>>
    /\ UNCHANGED lifeFrame

(* The group is joined and synced; Setup: close(h.ready). *)
Setup ==
    /\ gpc = "consume"
    /\ closedCh' = [closedCh EXCEPT ![hready] = @ + 1]
    /\ nsetup' = nsetup + 1
    /\ gpc' = "session"
    /\ UNCHANGED <<ready, nchan, mpc, waitCh, hready, startCtx, nconsume>>
    /\ UNCHANGED lifeFrame

(* The session ends (rebalance, error, or cancelled ctx); Cleanup; Consume returns. *)
SessionEnd ==
    /\ gpc = "session"
    /\ gpc' = "after"
    /\ UNCHANGED <<ready, nchan, closedCh, mpc, waitCh, hready, startCtx, nconsume, nsetup>>
    /\ UNCHANGED lifeFrame

(* Mutant: the loop keeps the channel it has. *)
readyAfterSessionKept == ready

(* c.ready = make(chan bool): the field after the statement. *)
readyAfterSession == nchan

(* if ctx.Err() != nil { return }; c.ready = make(chan bool) *)
AfterConsume ==
    /\ gpc = "after"
    /\ IF startCtx
       THEN /\ gpc' = "done"
            /\ UNCHANGED <<ready, nchan, closedCh>>
       ELSE /\ gpc' = "top"
            /\ nchan' = nchan + 1
            /\ closedCh' = [i \in 0 .. nchan |-> IF i = nchan THEN 0 ELSE closedCh[i]]
            /\ ready' = readyAfterSession
    /\ UNCHANGED <<mpc, waitCh, hready, startCtx, nconsume, nsetup>>
    /\ UNCHANGED lifeFrame

NextStart ==
    \/ StartSpawn
    \/ StartRead
    \/ StartReturn
    \/ CancelStart
    \/ CallConsume
    \/ ConsumeFail
    \/ Setup
    \/ SessionEnd
    \/ AfterConsume

SpecStart == InitStart /\ [][NextStart]_vars

(* C9: Start has returned only if some Setup has run and the channel Start  *)
(* waited on has been closed by a Setup: Start never returns before the     *)
(* first Setup.                                                             *)
C9_StartAfterSetup ==
    mpc = "started" =>
        /\ nsetup >= 1
        /\ waitCh # None /\ closedCh[waitCh] >= 1

(* Start returned on the channel of the second Consume call, the first call *)
(* having failed before any Setup.                                          *)
C9_Witness ==
    /\ mpc = "started" /\ waitCh = 1
    /\ closedCh[0] = 0 /\ closedCh[1] = 1 /\ nsetup = 1

(* C10: when a Consume call has returned and ctx is not cancelled, the loop *)
(* makes a new channel and goes round again; every Consume call gets a      *)
(* handler bound to a channel no earlier call had (the n-th call the n-th   *)
(* channel made) and not yet closed; the goroutine returns only with ctx    *)
(* cancelled.                                                               *)
C10_FreshReadyEachSession ==
    [][/\ (gpc = "after" /\ gpc' # "after" =>
              IF startCtx THEN gpc' = "done"
              ELSE /\ gpc' = "top"
                   /\ ready' = nchan /\ ready' \notin DOMAIN closedCh
                   /\ closedCh'[ready'] = 0)
       /\ (nconsume' = nconsume + 1 =>
              /\ gpc' = "consume"
              /\ hready' = ready /\ hready' = nconsume
              /\ closedCh[hready'] = 0)
       /\ (gpc' = "done" /\ gpc # "done" => gpc = "after" /\ startCtx)]_vars

(* The third Consume call is running on the third channel, still open,      *)
(* after one failed call and one ended session; ctx is not cancelled.       *)
C10_Witness ==
    /\ gpc = "consume" /\ nconsume = 3 /\ hready = 2 /\ ~startCtx
    /\ closedCh[0] + closedCh[1] = 1 /\ closedCh[2] = 0


-----------------------------------------------------------------------------
(* C12: a send that has started ends with success, with a remote failure or *)
(* with the send's own timeout, whether or not the cancellation signal has  *)
(* been raised meanwhile: it is never ended by the cancellation.            *)
C12_SendNotAborted ==
    \A c \in DOMAIN pc : sres[c] # "aborted"


-----------------------------------------------------------------------------
(* A step in which the process is started again: no loop has taken a        *)
(* message yet, while some loop had before.                                 *)
RestartStep ==
    /\ \A c \in DOMAIN pc : ~received'[c]
    /\ \E c \in DOMAIN pc : received[c]

FailedCheck(cs) == \E i \in 1 .. Len(cs) : ~cs[i][2]

(* C13: when a handler has returned an error, the next step of the loop     *)
(* marks the message (once) and is back at the select for the next message, *)
(* with nothing left for redelivery; the handler was invoked once and the   *)
(* Sink at most once for that delivery.                                     *)
C13_ErrorLoggedAndDiscarded ==
    [][\A c \in DOMAIN pc :
          /\ (pc[c] = "mark" /\ hres[c] = "err" /\ pc'[c] # "mark" /\ received'[c] =>
                 /\ pc'[c] = "poll" /\ nmarks'[c] = 1 /\ prev'[c] = "err"
                 /\ redeliver'[c] = NoMsg /\ alive')
          /\ (hres'[c] = "err" =>
                 /\ pc'[c] = "mark" /\ ninvoked'[c] = 1 /\ nmarks'[c] = 0
                 /\ sres'[c] \in {"fail", "aborted"} /\ nsink'[c] = 1)
          /\ ninvoked'[c] <= 1 /\ nsink'[c] <= 1
          /\ (prev'[c] = "err" => pc'[c] \in {"poll", "exited"} /\ cur'[c] = NoMsg)]_vars

(* The decision loop is back at its select after a failed send, the message *)
(* marked, the session still running.                                       *)
C13_Witness ==
    /\ prev[<<DecisionTopic, 0>>] = "err" /\ pc[<<DecisionTopic, 0>>] = "poll"
    /\ nmarks[<<DecisionTopic, 0>>] = 1 /\ alive /\ ~ctxDone

(* C15: a step of the decision gate never changes the cooldown map; when    *)
(* a check fails the handler returns nil at once, and from the gate the     *)
(* handler returns only that way; the Sink is not invoked for a suppressed  *)
(* event.                                                                   *)
C15_SuppressedNoEffect ==
    [][\A c \in DOMAIN pc :
          /\ ((/\ evt[c] = "DecisionEvent"
               /\ pc[c] \in {"d_signal", "d_conf", "d_cool", "d_since", "d_quiet"}
               /\ pc'[c] # pc[c] /\ received'[c]) =>
                 /\ cooldowns' = cooldowns
                 /\ (pc'[c] = "mark" <=> FailedCheck(checks'[c])))
          /\ (evt'[c] = "DecisionEvent" /\ FailedCheck(checks'[c]) =>
                 /\ pc'[c] = "mark" /\ hres'[c] = "nil"
                 /\ nsink'[c] = 0 /\ sres'[c] = "none"
                 /\ checks'[c][Len(checks'[c])][1] \in
                       {"signal", "confidence", "cooldown", "quiet"})]_vars

(* A decision was suppressed by quiet hours while the cooldown map holds an *)
(* entry.                                                                   *)
C15_Witness ==
    \E c \in DOMAIN pc :
        /\ pc[c] = "mark" /\ hres[c] = "nil" /\ Len(checks[c]) = 4
        /\ checks[c][4] = <<"quiet", FALSE>>
        /\ cooldowns # NoCooldowns

(* C18: the cooldown map is empty at process start; in every step of a      *)
(* running process no entry is removed and no timestamp goes back; and the  *)
(* map changes only by the write of a decision handler whose event passed   *)
(* all four checks, for that event's symbol, to the current time.           *)
C18_CooldownsOnlyGrow ==
    /\ cooldowns = NoCooldowns
    /\ [][IF RestartStep
          THEN cooldowns' = NoCooldowns
          ELSE /\ DOMAIN cooldowns \subseteq DOMAIN cooldowns'
               /\ \A s \in DOMAIN cooldowns : cooldowns'[s] >= cooldowns[s]
               /\ (cooldowns' # cooldowns =>
                      \E c \in DOMAIN pc :
                          /\ evt[c] = "DecisionEvent" /\ PassedAll(c, 4)
                          /\ pc[c] = "d_setcd" /\ pc'[c] = "mark"
                          /\ DOMAIN cooldowns' = DOMAIN cooldowns \cup {cur[c].symbol}
                          /\ cooldowns'[cur[c].symbol] = now
                          /\ \A s \in DOMAIN cooldowns \ {cur[c].symbol} :
                                 cooldowns'[s] = cooldowns[s])]_vars

(* The map holds both symbols, written at different times. *)
C18_Witness ==
    /\ DOMAIN cooldowns = Symbols
    /\ cooldowns["AAPL"] = 0 /\ cooldowns["SLV"] = MaxTime

(* C19: a message in hand is of its claim's topic; if it deserializes it    *)
(* became a DecisionEvent on the decision topic and a RankingEvent on the   *)
(* ranking topic, one handler invocation was made for it, and the code      *)
(* running for it is the decision handler on the decision topic and the     *)
(* ranking handler on the ranking topic (whose type assertion therefore     *)
(* never fails); a payload that does not deserialize reaches no handler.    *)
C19_RoutedByTopic ==
    \A c \in DOMAIN pc :
        cur[c] # NoMsg =>
            /\ cur[c].topic = c[1]
            /\ (cur[c].ok =>
                   /\ ninvoked[c] = 1
                   /\ evt[c] = (IF cur[c].topic = DecisionTopic
                                THEN "DecisionEvent" ELSE "RankingEvent"))
            /\ (~cur[c].ok => ninvoked[c] = 0 /\ evt[c] = "none" /\ checks[c] = <<>>)
            /\ (pc[c] \in DecisionPcs => cur[c].topic = DecisionTopic)
            /\ (pc[c] \in RankingPcs => cur[c].topic = RankingTopic)
            /\ (Len(checks[c]) >= 1 =>
                   checks[c][1][1] = (IF cur[c].topic = DecisionTopic
                                      THEN "signal" ELSE "rankings"))
            /\ (hres[c] = "err" => sres[c] \in {"fail", "aborted"})

(* Both handlers are running at once, each on a message of its own topic. *)
C19_Witness ==
    /\ pc[<<DecisionTopic, 0>>] = "d_conf" /\ pc[<<RankingTopic, 0>>] = "r_quiet"
    /\ evt[<<DecisionTopic, 0>>] = "DecisionEvent"
    /\ evt[<<RankingTopic, 0>>] = "RankingEvent"


-----------------------------------------------------------------------------
(* internal/service: formatDecisionMessage and formatRankingMessage.        *)
(* A text is kept as the record of its parts.  A string is kept as its runs *)
(* of characters of equal length in bytes (UTF-8): n characters of w bytes  *)
(* each, neighbouring runs differing in w; len() and slicing of a Go string *)
(* count bytes.                                                             *)

Str(n, w) == IF n = 0 THEN <<>> ELSE <<[n |-> n, w |-> w]>>

(* len(str) *)
RECURSIVE ByteLen(_)
ByteLen(str) ==
    IF str = <<>> THEN 0 ELSE Head(str).n * Head(str).w + ByteLen(Tail(str))

(* str[:b] for b <= len(str): the characters that lie wholly in the first b *)
(* bytes, and the number of bytes kept of a character cut in two.           *)
RECURSIVE ByteSlice(_, _)
ByteSlice(str, b) ==
    IF b = 0 \/ str = <<>> THEN [chars |-> <<>>, cut |-> 0]
    ELSE LET r == Head(str)
         IN  IF r.n * r.w <= b
             THEN LET rest == ByteSlice(Tail(str), b - r.n * r.w)
                  IN  [chars |-> <<r>> \o rest.chars, cut |-> rest.cut]
             ELSE [chars |-> Str(b \div r.w, r.w), cut |-> b % r.w]

(* Truncate long reasoning: the text written after the corner mark. *)
truncateReasoning(reasoning) ==
    IF ByteLen(reasoning) > ReasoningLimit
    THEN [chars  |-> ByteSlice(reasoning, ReasoningKeep).chars,
          cut    |-> ByteSlice(reasoning, ReasoningKeep).cut,
          marker |-> TRUE]
    ELSE [chars |-> reasoning, cut |-> 0, marker |-> FALSE]

signalEmoji(signal, known) == IF signal \in known THEN <<"emoji", signal>> ELSE <<>>

(* The orders in which `range` may visit the keys of a map. *)
RangeOrders(keys) ==
    {f \in [1 .. Cardinality(keys) -> keys] :
        \A i, j \in 1 .. Cardinality(keys) : i # j => f[i] # f[j]}

formatDecisionMessage(event, order) ==
    IF formatConfidenceBar(event.conf) = "panic"
    THEN [panicked |-> TRUE]
    ELSE [panicked   |-> FALSE,
          emoji      |-> signalEmoji(event.signal,
                                     {SignalBuy, SignalSell, SignalWatch}),
          header     |-> <<event.signal, event.symbol>>,
          percent    |-> event.conf,
          bar        |-> formatConfidenceBar(event.conf),
          indicators |-> [i \in 1 .. Len(order) |->
                             <<order[i], event.indicators[order[i]]>>]]

Min(a, b) == IF a < b THEN a ELSE b

medal(i) ==
    CASE i = 0 -> "gold"
      [] i = 1 -> "silver"
      [] i = 2 -> "bronze"
      [] OTHER -> <<i + 1, ".">>

formatRankingMessage(event) ==
    LET count == IF config.RankingsTopN > Len(event.rankings)
                 THEN Len(event.rankings) ELSE config.RankingsTopN
    IN  [panicked |-> FALSE,
         emoji    |-> signalEmoji(event.signalType, {SignalBuy, SignalSell}),
         header   |-> event.signalType,
         top      |-> count,
         entries  |-> [k \in 1 .. count |->
                          LET r == event.rankings[k]
                          IN  [medal     |-> medal(k - 1),
                               symbol    |-> r.symbol,
                               reasoning |-> IF r.reasoning # <<>>
                                             THEN <<truncateReasoning(r.reasoning)>>
                                             ELSE <<>>]],
         total    |-> event.total]

(* Events given to the renderers. *)
Indicators == {"rsi", "macd"}
RenderConfidences == (0 - 15) .. 115

RenderDecisions ==
    {[kind |-> "decision", signal |-> g, symbol |-> "AAPL", conf |-> k,
      indicators |-> [n \in ns |-> IF n = "rsi" THEN 70 ELSE 1]] :
        g \in Signals, k \in RenderConfidences, ns \in SUBSET Indicators}

(* Reasonings: ASCII texts, texts of two-byte characters, and ASCII texts    *)
(* ending in three-byte characters.                                         *)
Reasonings ==
    {Str(n, 1) : n \in {0, ReasoningKeep, ReasoningLimit, ReasoningLimit + 1}}
    \cup {Str(n, 2) : n \in {ReasoningLimit \div 2, ReasoningLimit \div 2 + 1}}
    \cup {Str(n, 1) \o Str(2, 3) : n \in {ReasoningLimit - 6, ReasoningLimit - 4}}

(* Lists that are not sorted by rank, the first entry carrying the reasoning. *)
RankingList(len, reasoning) ==
    [k \in 1 .. len |->
        [symbol |-> <<"SYM", k>>, rank |-> len - k + 1,
         reasoning |-> IF k = 1 THEN reasoning ELSE Str(k, 1)]]

RenderRankings ==
    {[kind |-> "ranking", signalType |-> g, total |-> len,
      rankings |-> RankingList(len, r)] :
        g \in {SignalBuy, SignalWatch}, len \in 0 .. MaxRankings, r \in Reasonings}

TopNs == {0, 1, 3, DefaultRankingsTopN}

InitRender ==
    /\ \/ /\ config = MkConfig(TRUE, TRUE, FALSE, TRUE, 1, QuietOff)
          /\ rin \in RenderDecisions
       \/ /\ config \in {[MkConfig(TRUE, TRUE, FALSE, TRUE, 1, QuietOff)
                            EXCEPT !.RankingsTopN = n] : n \in TopNs}
          /\ rin \in RenderRankings
    /\ rout = <<>>
    /\ InitClaims({})
    /\ InitService({})
    /\ ctxDone = FALSE
    /\ alive = TRUE
    /\ InitLife
    /\ qhour = None /\ qres = FALSE /\ cdprobe = NoProbe
    /\ cpc = "none" /\ clientClosed = FALSE
    /\ readers = {} /\ writers = {}

renderFrame == <<config, claimVars, svcVars, ctxDone, alive, lifeVars,
                 qhour, qres, cdprobe, closeVars, lockVars, rin>>

(* message := s.formatDecisionMessage(event) *)
RenderDecision ==
    /\ rin.kind = "decision" /\ Len(rout) < MaxRenders
    /\ \E order \in RangeOrders(DOMAIN rin.indicators) :
          rout' = Append(rout, formatDecisionMessage(rin, order))
    /\ UNCHANGED renderFrame

(* message := s.formatRankingMessage(event) *)
RenderRanking ==
    /\ rin.kind = "ranking" /\ Len(rout) < MaxRenders
    /\ rout' = Append(rout, formatRankingMessage(rin))
    /\ UNCHANGED renderFrame

NextRender ==
    \/ RenderDecision
    \/ RenderRanking

SpecRender == InitRender /\ [][NextRender]_vars

(* C14: any two renderings of the same event are the same text. *)
C14_RenderingDeterministic ==
    \A i, j \in 1 .. Len(rout) : rout[i] = rout[j]

(* C16: for a confidence in [0,1] the bar has exactly 10 segments, the      *)
(* first floor(10 c) of them filled and the others empty.                   *)
C16_ConfidenceBar ==
    \A i \in 1 .. Len(rout) :
        rin.kind = "decision" /\ rin.conf >= 0 /\ rin.conf <= 100 =>
            /\ ~rout[i].panicked
            /\ Len(rout[i].bar) = 10
            /\ \A k \in 1 .. 10 :
                   rout[i].bar[k] = (IF 10 * k <= rin.conf THEN "filled" ELSE "empty")

(* Confidence 0.79 was rendered with 7 filled segments before 3 empty ones. *)
C16_Witness ==
    /\ rin.kind = "decision" /\ rin.conf = 79 /\ Len(rout) = 1
    /\ rout[1].bar = <<"filled", "filled", "filled", "filled", "filled", "filled",
                       "filled", "empty", "empty", "empty">>

(* The number of characters of a string, and its first k characters. *)
RECURSIVE CharLen(_)
CharLen(str) == IF str = <<>> THEN 0 ELSE Head(str).n + CharLen(Tail(str))

RECURSIVE CharPrefix(_, _)
CharPrefix(str, k) ==
    IF k = 0 \/ str = <<>> THEN <<>>
    ELSE IF Head(str).n <= k
         THEN <<Head(str)>> \o CharPrefix(Tail(str), k - Head(str).n)
         ELSE <<[n |-> k, w |-> Head(str).w]>>

(* C17: the ranking text has min(topN, len(rankings)) entries, the first    *)
(* entries of the list in their order; entries 1 to 3 carry the special     *)
(* markers and entry N > 3 the marker "N."; a reasoning of more than 100    *)
(* characters is rendered as its first 97 characters and the truncation     *)
(* marker, one of at most 100 characters unchanged.                         *)
C17_RankingRendering ==
    \A i \in 1 .. Len(rout) :
        rin.kind = "ranking" =>
            /\ Len(rout[i].entries) = Min(config.RankingsTopN, Len(rin.rankings))
            /\ \A k \in 1 .. Len(rout[i].entries) :
                  LET e == rout[i].entries[k]
                      r == rin.rankings[k]
                  IN  /\ e.symbol = r.symbol
                      /\ e.medal = (IF k = 1 THEN "gold" ELSE IF k = 2 THEN "silver"
                                    ELSE IF k = 3 THEN "bronze" ELSE <<k, ".">>)
                      /\ (r.reasoning # <<>> =>
                             e.reasoning =
                                <<IF CharLen(r.reasoning) > 100
                                  THEN [chars |-> CharPrefix(r.reasoning, 97), cut |-> 0,
                                        marker |-> TRUE]
                                  ELSE [chars |-> r.reasoning, cut |-> 0,
                                        marker |-> FALSE]>>)


-----------------------------------------------------------------------------
(* internal/service: checkCooldown and setCooldown at the grain of the      *)
(* operations on cooldownMu (sync.RWMutex) and on the cooldowns map, with   *)
(* two partitions of the decision topic handled at once.                    *)

LockClaims == {<<DecisionTopic, 0>>, <<DecisionTopic, 1>>}

checkCooldownLock == "RLock"        \* checkCooldown: s.cooldownMu.RLock()

(* Mutant: setCooldown takes the lock shared. *)
setCooldownRLock == "RLock"

setCooldownLock == "Lock"           \* setCooldown: s.cooldownMu.Lock()

(* sync.RWMutex: RLock waits while the lock is held exclusively, Lock       *)
(* waits while it is held at all.                                           *)
CanAcquire(mode) ==
    IF mode = "RLock" THEN writers = {} ELSE writers = {} /\ readers = {}

Acquire(c, mode) ==
    IF mode = "RLock"
    THEN readers' = readers \cup {c} /\ UNCHANGED writers
    ELSE writers' = writers \cup {c} /\ UNCHANGED readers

(* RUnlock / Unlock *)
Release(c, mode) ==
    IF mode = "RLock"
    THEN readers' = readers \ {c} /\ UNCHANGED writers
    ELSE writers' = writers \ {c} /\ UNCHANGED readers

InitLock ==
    /\ config = MkConfig(TRUE, FALSE, FALSE, FALSE, 1, QuietOff)
    /\ InitClaims(LockClaims)
    /\ InitService({})
    /\ ctxDone = FALSE
    /\ alive = TRUE
    /\ InitLife
    /\ InitUnit

lockFrame == <<config, cur, evt, ninvoked, nsink, sres, nmarks, received, prev,
               redeliver, now, accepted, sentOK, ctxDone, alive, lifeVars,
               qhour, qres, cdprobe, closeVars, renderVars>>

(* checkCooldown: s.cooldownMu.RLock() *)
CooldownRLock(c) ==
    /\ alive /\ pc[c] = "d_cool"
    /\ CanAcquire(checkCooldownLock)
    /\ Acquire(c, checkCooldownLock)
    /\ pc' = Upd(pc, c, "d_cool_locked")
    /\ UNCHANGED <<lastAlert, checks, hres, cooldowns, lockFrame>>

(* checkCooldown: the lookup s.cooldowns[symbol] begins ... *)
CooldownReadBegin(c) ==
    /\ alive /\ pc[c] = "d_cool_locked"
    /\ pc' = Upd(pc, c, "d_cool_reading")
    /\ UNCHANGED <<lastAlert, checks, hres, cooldowns, lockVars, lockFrame>>

(* ... and ends: lastAlert, exists are assigned. *)
CooldownReadEnd(c) ==
    /\ alive /\ pc[c] = "d_cool_reading"
    /\ lastAlert' = Upd(lastAlert, c, cooldownLookup(cur[c].symbol))
    /\ pc' = Upd(pc, c, "d_cool_unlock")
    /\ UNCHANGED <<checks, hres, cooldowns, lockVars, lockFrame>>

(* checkCooldown: s.cooldownMu.RUnlock(); if !exists { return true } *)
CooldownRUnlock(c) ==
    /\ alive /\ pc[c] = "d_cool_unlock"
    /\ Release(c, checkCooldownLock)
    /\ IF lastAlert[c] = None
       THEN /\ checks' = Logged(c, "cooldown", TRUE)
            /\ pc' = Upd(pc, c, "d_quiet")
       ELSE /\ pc' = Upd(pc, c, "d_since")
            /\ UNCHANGED checks
    /\ UNCHANGED <<lastAlert, hres, cooldowns, lockFrame>>

(* setCooldown: s.cooldownMu.Lock() *)
SetCooldownLock(c) ==
    /\ alive /\ pc[c] = "d_setcd"
    /\ CanAcquire(setCooldownLock)
    /\ Acquire(c, setCooldownLock)
    /\ pc' = Upd(pc, c, "d_setcd_locked")
    /\ UNCHANGED <<lastAlert, checks, hres, cooldowns, lockFrame>>

(* setCooldown: the assignment s.cooldowns[symbol] = time.Now() begins ... *)
SetCooldownWriteBegin(c) ==
    /\ alive /\ pc[c] = "d_setcd_locked"
    /\ pc' = Upd(pc, c, "d_setcd_writing")
    /\ UNCHANGED <<lastAlert, checks, hres, cooldowns, lockVars, lockFrame>>

(* ... and ends: the map holds the entry. *)
SetCooldownWriteEnd(c) ==
    /\ alive /\ pc[c] = "d_setcd_writing"
    /\ cooldowns' = setCooldown(cur[c].symbol)
    /\ pc' = Upd(pc, c, "d_setcd_unlock")
    /\ UNCHANGED <<lastAlert, checks, hres, lockVars, lockFrame>>

(* setCooldown: s.cooldownMu.Unlock(); the handler logs and returns nil. *)
SetCooldownUnlock(c) ==
    /\ alive /\ pc[c] = "d_setcd_unlock"
    /\ Release(c, setCooldownLock)
    /\ Return(c, "nil")
    /\ UNCHANGED <<lastAlert, checks, cooldowns, lockFrame>>

NextLock ==
    \/ \E c \in DOMAIN pc :
          \/ Receive(c)
          \/ UnmarshalFailed(c)
          \/ Mark(c)
          \/ CheckSignal(c)
          \/ CheckConfidence(c)
          \/ CooldownRLock(c)
          \/ CooldownReadBegin(c)
          \/ CooldownReadEnd(c)
          \/ CooldownRUnlock(c)
          \/ CooldownSince(c)
          \/ CheckQuiet(c)
          \/ DecisionSendDone(c)
          \/ SetCooldownLock(c)
          \/ SetCooldownWriteBegin(c)
          \/ SetCooldownWriteEnd(c)
          \/ SetCooldownUnlock(c)
    \/ Tick

SpecLock == InitLock /\ [][NextLock]_vars

(* Where a handler is inside the map lookup, inside the map assignment, and *)
(* inside the call of the Sink.                                             *)
Reading(c) == pc[c] = "d_cool_reading"
Writing(c) == pc[c] = "d_setcd_writing"
InSink(c)  == pc[c] \in {"d_sending", "r_sending"}

(* C20: the cooldown map is read only by a handler holding the lock shared  *)
(* and written only by a handler holding it exclusively; the lock is held   *)
(* exclusively by at most one handler and then by no reader; so no write    *)
(* overlaps another write or a read; and no handler holds the lock while    *)
(* it calls the Sink.                                                       *)
C20_MapUnderLock ==
    /\ Cardinality(writers) <= 1
    /\ (writers # {} => readers = {})
    /\ \A c \in DOMAIN pc :
          /\ (Reading(c) => c \in readers)
          /\ (Writing(c) => c \in writers)
          /\ (Writing(c) => \A o \in DOMAIN pc \ {c} : ~Reading(o) /\ ~Writing(o))
          /\ (InSink(c) => c \notin readers \cup writers)

(* One handler is writing the map while the other, which wants to read it,  *)
(* waits for the lock.                                                      *)
C20_Witness ==
    /\ Writing(<<DecisionTopic, 0>>)
    /\ pc[<<DecisionTopic, 1>>] = "d_cool"
    /\ writers = {<<DecisionTopic, 0>>}


-----------------------------------------------------------------------------
(* internal/kafka: Consumer.Close, with the goroutine of Start, the         *)
(* sessions of client.Consume and the claim loops each session runs.        *)
(* DOMAIN pc is the set of claim loops that exist: a session starts one     *)
(* ConsumeClaim per claim after Setup, and Consume returns once all of them *)
(* have returned.                                                           *)

CloseClaims == {<<DecisionTopic, 0>>, <<RankingTopic, 0>>}

InitClose ==
    /\ config = MkConfig(TRUE, FALSE, FALSE, TRUE, 1, QuietOff)
    /\ InitClaims({})
    /\ InitService({})
    /\ ctxDone = FALSE
    /\ alive = TRUE
    /\ InitLife
    /\ InitUnit

closeFrame == <<config, svcVars, alive, qhour, qres, cdprobe, lockVars, renderVars>>

(* The claim loops of a session: those of `cs`, each at its select. *)
ClaimLoops(cs) ==
    /\ pc'        = [c \in cs |-> "poll"]
    /\ cur'       = [c \in cs |-> NoMsg]
    /\ evt'       = [c \in cs |-> "none"]
    /\ lastAlert' = [c \in cs |-> None]
    /\ checks'    = [c \in cs |-> <<>>]
    /\ hres'      = [c \in cs |-> "none"]
    /\ ninvoked'  = [c \in cs |-> 0]
    /\ nsink'     = [c \in cs |-> 0]
    /\ sres'      = [c \in cs |-> "none"]
    /\ received'  = [c \in cs |-> FALSE]
    /\ prev'      = [c \in cs |-> "none"]
    /\ nmarks'    = [c \in cs |-> 0]
    /\ redeliver' = [c \in cs |-> NoMsg]

(* Consume returns an error before any session was set up. *)
ConsumeFailClose ==
    /\ nconsume <= MaxRebalances \/ startCtx
    /\ ConsumeFail

(* The group is joined and synced; Setup: close(h.ready); the session runs  *)
(* ConsumeClaim for every claim, its context derived from the ctx of Start. *)
SetupSession ==
    /\ alive /\ gpc = "consume"
    /\ closedCh' = [closedCh EXCEPT ![hready] = @ + 1]
    /\ nsetup' = nsetup + 1
    /\ gpc' = "session"
    /\ ClaimLoops(CloseClaims)
    /\ ctxDone' = startCtx
    /\ UNCHANGED <<ready, nchan, mpc, waitCh, hready, startCtx, nconsume, closeVars,
                   closeFrame>>

(* The group rebalances: the session context is cancelled. *)
Rebalance ==
    /\ gpc = "session" /\ nconsume <= MaxRebalances
    /\ Cancel

(* The session is over and every ConsumeClaim has returned: Cleanup,        *)
(* Consume returns.                                                         *)
SessionRelease ==
    /\ alive /\ gpc = "session" /\ ctxDone
    /\ \A c \in DOMAIN pc : pc[c] = "exited"
    /\ gpc' = "after"
    /\ ClaimLoops({})
    /\ UNCHANGED <<ready, nchan, closedCh, mpc, waitCh, hready, startCtx, nconsume,
                   nsetup, ctxDone, closeVars, closeFrame>>

(* cancel() of a context: it and the session context derived from it are done. *)
CancelCtx ==
    /\ startCtx' = TRUE
    /\ ctxDone' = IF gpc = "session" THEN TRUE ELSE ctxDone

(* main, after the shutdown signal: cancel() *)
MainCancel ==
    /\ alive /\ mpc = "started" /\ cpc = "none" /\ ~startCtx
    /\ CancelCtx
    /\ UNCHANGED <<ready, nchan, closedCh, mpc, waitCh, gpc, hready, nconsume, nsetup,
                   claimVars, closeVars, closeFrame>>

(* Close (deferred by main, Start having returned): c.cancel() *)
CloseCancel ==
    /\ alive /\ mpc = "started" /\ cpc = "none"
    /\ CancelCtx
    /\ cpc' = "waiting"
    /\ UNCHANGED <<ready, nchan, closedCh, mpc, waitCh, gpc, hready, nconsume, nsetup,
                   claimVars, clientClosed, closeFrame>>

(* Mutant: Close does not wait for the goroutine. *)
wgZeroAlways == TRUE

(* The counter of c.wg is zero: the goroutine has run its deferred wg.Done(). *)
wgZero == gpc = "done"

(* Close: c.wg.Wait() returns. *)
CloseWait ==
    /\ alive /\ cpc = "waiting"
    /\ wgZero
    /\ cpc' = "closing"
    /\ UNCHANGED <<lifeVars, claimVars, ctxDone, clientClosed, closeFrame>>

(* Close: return c.client.Close() *)
ClientClose ==
    /\ alive /\ cpc = "closing"
    /\ clientClosed' = TRUE
    /\ cpc' = "closed"
    /\ UNCHANGED <<lifeVars, claimVars, ctxDone, closeFrame>>

(* A step of the claim loop c or of the handler it has called. *)
LoopStep(c) ==
    /\ c \in DOMAIN pc
    /\ \/ UnmarshalFailed(c)
       \/ Mark(c)
       \/ CheckSignal(c)
       \/ CheckConfidence(c)
       \/ CooldownRead(c)
       \/ CooldownSince(c)
       \/ CheckQuiet(c)
       \/ DecisionSendDone(c)
       \/ SetCooldown(c)
       \/ RankingEnabled(c)
       \/ RankingQuiet(c)
       \/ RankingSendDone(c)

(* The loop c takes the Done case of its select and returns. *)
LoopExit(c) == c \in DOMAIN pc /\ ExitOnDone(c)

(* A step of the goroutine of Start. *)
GoroutineStep ==
    \/ CallConsume
    \/ ConsumeFailClose
    \/ SetupSession
    \/ SessionRelease
    \/ AfterConsume

(* A step of Close after its cancel(). *)
CloseStep ==
    \/ CloseWait
    \/ ClientClose

NextClose ==
    \/ StartSpawn
    \/ StartRead
    \/ StartReturn
    \/ GoroutineStep
    \/ Rebalance
    \/ \E c \in DOMAIN pc : Receive(c) \/ LoopExit(c) \/ LoopStep(c)
    \/ MainCancel
    \/ CloseCancel
    \/ CloseStep

(* Scheduling: every goroutine that can take a step does so in the end and  *)
(* every call returns (the handlers terminate, Consume returns once its     *)
(* session is over); a select with several ready cases picks one at random, *)
(* so a loop that comes back to its select with the context done takes the  *)
(* Done case in the end.  Nothing is assumed of the producers, of the       *)
(* group's rebalances or of the shutdown signal.                            *)
FairClose ==
    /\ WF_vars(GoroutineStep)
    /\ WF_vars(CloseStep)
    /\ \A c \in CloseClaims : WF_vars(LoopStep(c)) /\ SF_vars(LoopExit(c))

SpecClose == InitClose /\ [][NextClose]_vars /\ FairClose

(* A claim loop is running: it exists and has not returned. *)
LoopRunning(c) == c \in DOMAIN pc /\ pc[c] # "exited"

(* The order of Close: it waits only with the cancellation raised, and it   *)
(* is past the wait, and the client closed, only with the goroutine         *)
(* returned and no claim loop running.                                      *)
CloseOrder ==
    /\ (cpc \in {"waiting", "closing", "closed"} => startCtx)
    /\ (cpc \in {"closing", "closed"} =>
           gpc = "done" /\ \A c \in CloseClaims : ~LoopRunning(c))
    /\ (clientClosed => cpc = "closed" /\ \A c \in CloseClaims : ~LoopRunning(c))

(* C11: Close raises the cancellation, then waits for the goroutine and so  *)
(* for every claim loop, and only then closes the client: the client is     *)
(* never closed while a claim loop runs; once the cancellation is raised    *)
(* every claim loop exits in the end, and a Close that waits returns in the *)
(* end (the process not having died in a handler).                          *)
C11_CloseWaitsForLoops ==
    /\ []CloseOrder
    /\ startCtx ~> ((gpc = "done" /\ \A c \in CloseClaims : ~LoopRunning(c)) \/ ~alive)
    /\ (cpc = "waiting") ~> (clientClosed \/ ~alive)

(* Close has raised the cancellation and waits while a decision handler is  *)
(* still inside its send and the client is open.                            *)
C11_Witness ==
    /\ cpc = "waiting" /\ ctxDone /\ ~clientClosed
    /\ <<DecisionTopic, 0>> \in DOMAIN pc
    /\ pc[<<DecisionTopic, 0>>] = "d_sending"


-----------------------------------------------------------------------------
(* internal/service: HandleDecisionEvent called at once from the claim      *)
(* loops of two partitions of the decision topic, checkCooldown and         *)
(* setCooldown each taken as one step (their lock makes them so).  The      *)
(* history of successfully sent decisions is kept for one symbol.           *)

RaceSymbol == "AAPL"

InitRace ==
    /\ config = MkConfig(TRUE, FALSE, FALSE, FALSE, 1, QuietOff)
    /\ InitClaims(LockClaims)
    /\ cooldowns = NoCooldowns
    /\ now = 0
    /\ accepted = NoTimes({})
    /\ sentOK = NoTimes({RaceSymbol})
    /\ ctxDone = FALSE
    /\ alive = TRUE
    /\ InitLife
    /\ InitUnit

NextRace ==
    \/ \E c \in DOMAIN pc :
          \/ Receive(c)
          \/ UnmarshalFailed(c)
          \/ Mark(c)
          \/ CheckSignal(c)
          \/ CheckConfidence(c)
          \/ CooldownRead(c)
          \/ CooldownSince(c)
          \/ CheckQuiet(c)
          \/ DecisionSendDone(c)
          \/ SetCooldown(c)
    \/ Tick

SpecRace == InitRace /\ [][NextRace]_vars

(* C21: whatever the interleaving of the handlers of several claims, a      *)
(* decision alert for a symbol is sent successfully only if no alert for    *)
(* that symbol was sent before or the last one was sent at least the        *)
(* configured cooldown earlier (for the symbols whose history is kept).     *)
C21_SentAlertsApart ==
    [][\A c \in DOMAIN pc :
          pc[c] = "d_sending" /\ sres'[c] = "ok"
             /\ cur[c].symbol \in DOMAIN sentOK =>
              \/ sentOK[cur[c].symbol] = None
              \/ now - sentOK[cur[c].symbol] >= cooldownDuration]_vars


(* C22: no message that deserializes ends the processing of its claim: the  *)
(* handler returns for every decision that passes the gate, one with a      *)
(* confidence outside [0,1] included, and the process stays alive; no claim *)
(* loop ends in a panic.                                                    *)
C22_NoMessageEndsProcessing ==
    \A c \in DOMAIN pc : pc[c] # "panicked"


-----------------------------------------------------------------------------
(* internal/kafka: Consumer.Start and its goroutine under fair scheduling.  *)
(* The caller of Start and the goroutine, once they can take their next     *)
(* step, take it in the end; nothing is assumed of the broker (whether a    *)
(* Consume call fails, sets a session up or ends) nor of the owner of ctx.  *)

FairStart ==
    /\ WF_vars(StartSpawn)
    /\ WF_vars(StartRead)
    /\ WF_vars(StartReturn)
    /\ WF_vars(CallConsume)
    /\ WF_vars(AfterConsume)

SpecStartFair == InitStart /\ [][NextStart]_vars /\ FairStart

(* C23: if some session completes Setup, Start returns in the end. *)
C23_StartReturnsAfterSetup ==
    (nsetup >= 1) ~> (mpc = "started")

(* C24: no readiness channel is closed more than once, whatever the         *)
(* sequence of sessions, rebalances and Consume errors: every Setup closes  *)
(* a channel that was open.                                                 *)
C24_ReadyClosedOnce ==
    /\ \A ch \in DOMAIN closedCh : closedCh[ch] <= 1
    /\ (gpc = "consume" => closedCh[hready] = 0)

(* Two sessions have been set up, a failed Consume call between them, each  *)
(* on a channel of its own.                                                 *)
C24_Witness ==
    /\ nsetup = 2 /\ nconsume = 3
    /\ closedCh[0] = 1 /\ closedCh[1] = 0 /\ closedCh[2] = 1

====
